---- MODULE Spec2Model ----
(***************************************************************************)
(* A model of the interview-practice service of src/app.py: the two       *)
(* in-memory session maps, the three request handlers, and the pure        *)
(* functions they are built from (parse_resume, generate_questions,        *)
(* evaluate_answer, generate_summary_report).                              *)
(*                                                                         *)
(* Texts are sequences of tokens.  A token is one character (":", " ",     *)
(* "\n", ".", "-", a digit) or one word that no other token overlaps (a    *)
(* marker word such as "Confidence", a plain word such as "x").  Python's  *)
(* substring test `w in line` for a marker word w is therefore membership  *)
(* of the token w in the line.                                             *)
(*                                                                         *)
(* Scores are floats in the code.  The model keeps them as integers in     *)
(* tenths (9.0 is 90), and keeps a mean as the pair of its numerator and   *)
(* denominator, so that comparisons are exact.                             *)
(***************************************************************************)
EXTENDS Integers, Sequences, FiniteSets, TLC

VARIABLES
    QUESTIONS_DB,   \* app.py:84  user_id -> list of Question
    RESPONSES_DB,   \* app.py:85  user_id -> list of EvaluationResult
    uuidCtr,        \* number of uuid.uuid4() values handed out so far
    last,           \* the request handled last and its response
    procs,          \* concurrent handlers: each one's position and locals
    started,        \* number of concurrent requests begun so far
    actor,          \* the concurrent handler that took the last step
    wroteQ,         \* per user_id, the list the last QUESTIONS_DB writer computed
    wroteR,         \* per user_id, the list the last RESPONSES_DB writer computed
    arg,            \* the argument of the pure function under check
    ret             \* its result (Pending before the call)

vars == <<QUESTIONS_DB, RESPONSES_DB, uuidCtr, last, procs, started, actor,
          wroteQ, wroteR, arg, ret>>

apiVars  == <<QUESTIONS_DB, RESPONSES_DB, uuidCtr, last>>
concVars == <<procs, started, actor, wroteQ, wroteR>>
pureVars == <<arg, ret>>

-----------------------------------------------------------------------------
(* Bounds of the model *)

MaxRawLen == 7
MaxLines == 2
MaxTextLen == 2
MaxEvals == 2
MaxNameLen == 3
MaxAnswers == 2
MaxUsers == 1
MaxUuid == 3
NProcs == 2
MaxRequests == 3

-----------------------------------------------------------------------------
(* Tokens *)

NL == "\n"
SP == " "
COLON == ":"
DOT == "."
MINUS == "-"

Digits == {"0", "1", "5", "9"}

DigitVal(d) ==
    CASE d = "0" -> 0 [] d = "1" -> 1 [] d = "5" -> 5 [] d = "9" -> 9

\* Python's str.isspace on one token
IsSpace(t) == t \in {SP, NL}

\* the result of a call: not made yet, returned a value, or raised
Pending == [st |-> "pending"]
Returned(v) == [st |-> "returned", val |-> v]
Raised(e) == [st |-> "raised", exc |-> e]

BoundedSeq(S, n) == UNION {[1..k -> S] : k \in 0..n}

-----------------------------------------------------------------------------
(* Python's string methods, on token sequences *)

RECURSIVE lstrip(_)
lstrip(s) ==
    IF s = <<>> THEN s
    ELSE IF IsSpace(Head(s)) THEN lstrip(Tail(s)) ELSE s

RECURSIVE rstrip(_)
rstrip(s) ==
    IF s = <<>> THEN s
    ELSE IF IsSpace(s[Len(s)]) THEN rstrip(SubSeq(s, 1, Len(s) - 1)) ELSE s

\* str.strip(): leading and trailing whitespace removed
strip(s) == rstrip(lstrip(s))

\* index of the first occurrence of token sep in s, 0 when there is none
FirstIndex(s, sep) ==
    IF \E i \in 1..Len(s) : s[i] = sep
    THEN CHOOSE i \in 1..Len(s) : s[i] = sep /\ \A j \in 1..(i - 1) : s[j] # sep
    ELSE 0

\* str.split(sep): always at least one piece
RECURSIVE split(_, _)
split(s, sep) ==
    LET i == FirstIndex(s, sep)
    IN  IF i = 0 THEN <<s>>
        ELSE <<SubSeq(s, 1, i - 1)>> \o split(SubSeq(s, i + 1, Len(s)), sep)

\* str.split(sep, 1): at most one cut, at the first sep
split1(s, sep) ==
    LET i == FirstIndex(s, sep)
    IN  IF i = 0 THEN <<s>>
        ELSE <<SubSeq(s, 1, i - 1), SubSeq(s, i + 1, Len(s))>>

\* xs[-1]
LastOf(xs) == xs[Len(xs)]

\* sep.join(parts), parts a sequence of texts, sep a text
RECURSIVE join(_, _)
join(sep, parts) ==
    IF parts = <<>> THEN <<>>
    ELSE IF Len(parts) = 1 THEN parts[1]
    ELSE parts[1] \o sep \o join(sep, Tail(parts))

-----------------------------------------------------------------------------
(* generate_questions, app.py:99-109 *)

categories == <<"Technical", "Behavioral", "HR", "Situational">>

\* a plausible slip: the filter `if q.strip()` left out
KeptAll(questions, i) == [j \in 1..(Len(questions) + 1 - i) |-> j + i - 1]

\* the indices i of enumerate(questions) that pass `if q.strip()`, in order
RECURSIVE KeptFrom(_, _)
KeptFrom(questions, i) ==
    IF i > Len(questions) THEN <<>>
    ELSE (IF strip(questions[i]) # <<>> THEN <<i>> ELSE <<>>)
         \o KeptFrom(questions, i + 1)

\* result is the text question_chain.run returned; ctr the uuids used so far.
\* enumerate counts from 0, sequences from 1: i of the code is kept[j] - 1.
generate_questions(result, ctr) ==
    LET questions == split(strip(result), NL)
        kept == KeptFrom(questions, 1)
    IN  [j \in 1..Len(kept) |->
            [id |-> ctr + j,
             text |-> strip(questions[kept[j]]),
             category |-> categories[((kept[j] - 1) % Len(categories)) + 1]]]

-----------------------------------------------------------------------------
(* The question generator on every raw model output up to MaxRawLen tokens *)

GenAlphabet == {"a", "b", SP, NL}

InitGen ==
    /\ QUESTIONS_DB = <<>> /\ RESPONSES_DB = <<>> /\ uuidCtr = 0
    /\ last = [op |-> "none"]
    /\ procs = <<>> /\ started = 0 /\ actor = 0 /\ wroteQ = <<>> /\ wroteR = <<>>
    /\ arg \in BoundedSeq(GenAlphabet, MaxRawLen)
    /\ ret = Pending

CallGenerateQuestions ==
    /\ ret = Pending
    /\ ret' = Returned(generate_questions(arg, 0))
    /\ UNCHANGED <<arg, apiVars, concVars>>

NextGen == CallGenerateQuestions

SpecGen == InitGen /\ [][NextGen]_vars

\* what C3 expects: the trimmed non-blank lines of the raw text, in order
RECURSIVE NonBlankLines(_)
NonBlankLines(lines) ==
    IF lines = <<>> THEN <<>>
    ELSE (IF strip(Head(lines)) # <<>> THEN <<strip(Head(lines))>> ELSE <<>>)
         \o NonBlankLines(Tail(lines))

\* C3: for every raw output with K non-blank lines, generate_questions returns
\* exactly K Questions, their texts the trimmed non-blank lines in input order,
\* the one at 0-based position j of the result having category
\* [Technical, Behavioral, HR, Situational][j mod 4]; blank output gives the
\* empty sequence.
C3_RoundRobinOverSurvivors ==
    ret.st = "returned" =>
        LET want == NonBlankLines(split(arg, NL))
        IN  /\ Len(ret.val) = Len(want)
            /\ \A j \in 1..Len(want) :
                  /\ ret.val[j].text = want[j]
                  /\ ret.val[j].category = categories[((j - 1) % 4) + 1]

-----------------------------------------------------------------------------
(* evaluate_answer, app.py:111-134 *)

\* `w in line` for a marker word w
Contains(line, w) == \E i \in 1..Len(line) : line[i] = w

\* the texts float() accepts among those the alphabets can spell: an optional
\* "-" and one or more digits (surrounding whitespace is already stripped)
IsNumber(t) ==
    LET u == IF t # <<>> /\ t[1] = MINUS THEN Tail(t) ELSE t
    IN  u # <<>> /\ \A i \in 1..Len(u) : u[i] \in Digits

RECURSIVE DecVal(_)
DecVal(ds) ==
    IF ds = <<>> THEN 0
    ELSE 10 * DecVal(SubSeq(ds, 1, Len(ds) - 1)) + DigitVal(ds[Len(ds)])

\* a plausible slip: an unparseable number read as the default 0.0
floatOrDefault(text) ==
    LET t == strip(text)
    IN  IF IsNumber(t)
        THEN Returned(10 * (IF t[1] = MINUS THEN 0 - DecVal(Tail(t)) ELSE DecVal(t)))
        ELSE Returned(0)

\* float(text): the value in tenths, or ValueError
float(text) ==
    LET t == strip(text)
    IN  IF IsNumber(t)
        THEN Returned(10 * (IF t[1] = MINUS THEN 0 - DecVal(Tail(t)) ELSE DecVal(t)))
        ELSE Raised("ValueError")

\* float(line.split(":")[-1].strip())
NumberField(line) == float(strip(LastOf(split(line, COLON))))

\* a plausible slip: the text fields cut at the last colon, like the numbers
TextFieldLastColon(line) == strip(LastOf(split(line, COLON)))

\* line.split(":", 1)[-1].strip()
TextField(line) == strip(LastOf(split1(line, COLON)))

\* confidence = clarity = relevance = 0.0; feedback = expected = ""
EvalDefaults ==
    [confidence |-> 0, clarity |-> 0, relevance |-> 0,
     feedback |-> <<>>, expected |-> <<>>]

\* the for loop over the lines: f holds the five locals, a ValueError of
\* float() ends the loop and the call
RECURSIVE EvalLines(_, _)
EvalLines(f, lines) ==
    IF lines = <<>> THEN Returned(f)
    ELSE
      LET line == Head(lines)
          rest == Tail(lines)
          num == NumberField(line)
      IN  IF Contains(line, "Confidence") THEN
              IF num.st = "raised" THEN num
              ELSE EvalLines([f EXCEPT !.confidence = num.val], rest)
          ELSE IF Contains(line, "Clarity") THEN
              IF num.st = "raised" THEN num
              ELSE EvalLines([f EXCEPT !.clarity = num.val], rest)
          ELSE IF Contains(line, "Relevance") THEN
              IF num.st = "raised" THEN num
              ELSE EvalLines([f EXCEPT !.relevance = num.val], rest)
          ELSE IF Contains(line, "Feedback") THEN
              EvalLines([f EXCEPT !.feedback = TextField(line)], rest)
          ELSE IF Contains(line, "Expected") THEN
              EvalLines([f EXCEPT !.expected = TextField(line)], rest)
          ELSE EvalLines(f, rest)

\* result is the text eval_chain.run returned for this question and answer
evaluate_answer(question_id, result) ==
    LET lines == split(strip(result), NL)
        r == EvalLines(EvalDefaults, lines)
    IN  IF r.st = "raised" THEN r
        ELSE Returned([question_id |-> question_id,
                       confidence |-> r.val.confidence,
                       clarity |-> r.val.clarity,
                       relevance |-> r.val.relevance,
                       feedback |-> r.val.feedback,
                       expected_answer |-> r.val.expected])

-----------------------------------------------------------------------------
(* The evaluator on model responses of up to MaxLines lines *)

NumericMarkers == <<"Confidence", "Clarity", "Relevance">>
Markers == <<"Confidence", "Clarity", "Relevance", "Feedback", "Expected">>

LinePrefixes ==
    {<<>>, <<"Confidence">>, <<"Feedback", SP, "Clarity", COLON>>}
    \cup {<<Markers[k], COLON, SP>> : k \in 1..5}

LineValues ==
    {<<>>, <<"9">>, <<"0">>, <<"1", "0">>, <<MINUS, "1">>, <<"x">>, <<"9", SP>>,
     <<"x", COLON, SP, "5">>, <<"5", COLON, "x">>, <<"Relevance", COLON, "1">>}

LinePool == {pre \o v : pre \in LinePrefixes, v \in LineValues}

InitEval ==
    /\ QUESTIONS_DB = <<>> /\ RESPONSES_DB = <<>> /\ uuidCtr = 0
    /\ last = [op |-> "none"]
    /\ procs = <<>> /\ started = 0 /\ actor = 0 /\ wroteQ = <<>> /\ wroteR = <<>>
    /\ \E lines \in BoundedSeq(LinePool, MaxLines) : arg = join(<<NL>>, lines)
    /\ ret = Pending

CallEvaluateAnswer ==
    /\ ret = Pending
    /\ ret' = evaluate_answer(1, arg)
    /\ UNCHANGED <<arg, apiVars, concVars>>

NextEval == CallEvaluateAnswer

SpecEval == InitEval /\ [][NextEval]_vars

\* the lines evaluate_answer looks at
ArgLines == split(strip(arg), NL)

\* the numeric marker that claims the line by the precedence rule, "" if none
NumericMarkerOf(line) ==
    IF Contains(line, "Confidence") THEN "Confidence"
    ELSE IF Contains(line, "Clarity") THEN "Clarity"
    ELSE IF Contains(line, "Relevance") THEN "Relevance"
    ELSE ""

\* the text after the line's last colon (the whole line when it has none)
RECURSIVE AfterLastColon(_)
AfterLastColon(line) ==
    IF line = <<>> \/ line[Len(line)] = COLON THEN <<>>
    ELSE IF ~Contains(line, COLON) THEN line
    ELSE AfterLastColon(SubSeq(line, 1, Len(line) - 1)) \o <<line[Len(line)]>>

Parseable(text) == IsNumber(strip(text))

BadNumericLine(line) ==
    NumericMarkerOf(line) # "" /\ ~Parseable(AfterLastColon(line))

FieldOf(m) ==
    CASE m = "Confidence" -> "confidence"
      [] m = "Clarity" -> "clarity"
      [] m = "Relevance" -> "relevance"

\* C5: evaluate_answer raises the parsing error, and returns nothing, whenever
\* some line claimed by a numeric marker has unparseable text after its last
\* colon, even when a later line of the field parses; and a numeric field of a
\* returned result is 0.0 only if no line matched its marker or a matching
\* line parsed to 0.
C5_UnparseableNumberRaises ==
    ret.st # "pending" =>
        /\ (\E i \in 1..Len(ArgLines) : BadNumericLine(ArgLines[i]))
              => (ret.st = "raised" /\ ret.exc = "ValueError")
        /\ ret.st = "returned" =>
              \A k \in 1..3 :
                  ret.val[FieldOf(NumericMarkers[k])] = 0 =>
                      \/ \A i \in 1..Len(ArgLines) :
                            NumericMarkerOf(ArgLines[i]) # NumericMarkers[k]
                      \/ \E i \in 1..Len(ArgLines) :
                            /\ NumericMarkerOf(ArgLines[i]) = NumericMarkers[k]
                            /\ Parseable(AfterLastColon(ArgLines[i]))
                            /\ float(AfterLastColon(ArgLines[i])).val = 0

\* a bad Confidence line followed by a good one: the call has raised
C5_Witness ==
    /\ ret.st = "raised"
    /\ Len(ArgLines) = 2
    /\ NumericMarkerOf(ArgLines[1]) = "Confidence" /\ BadNumericLine(ArgLines[1])
    /\ NumericMarkerOf(ArgLines[2]) = "Confidence" /\ ~BadNumericLine(ArgLines[2])

-----------------------------------------------------------------------------
(* The evaluator on synthetic responses that carry all five labelled fields *)

TextAlphabet ==
    {"x", COLON, SP, "Confidence", "Clarity", "Feedback", "Expected"}

\* the line "Label: value"
FieldLine(label, value) == <<label, COLON, SP>> \o value

\* the value of a second line for label k
DupValue(k) == IF k <= 3 THEN <<"5">> ELSE <<"y">>

\* the five lines in the order of the prompt, and the second line of one
\* label (if any) before or after them
SyntheticLines(a) ==
    LET five == <<FieldLine("Confidence", a.c), FieldLine("Clarity", a.l),
                  FieldLine("Relevance", a.r), FieldLine("Feedback", a.f),
                  FieldLine("Expected", a.x)>>
        extra == <<FieldLine(Markers[a.dup.label], DupValue(a.dup.label))>>
    IN  CASE a.dup.pos = "none" -> five
          [] a.dup.pos = "first" -> extra \o five
          [] a.dup.pos = "last" -> five \o extra

Synthetic(a) == join(<<NL>>, SyntheticLines(a))

Dups ==
    {[pos |-> "none", label |-> 1]}
    \cup [pos : {"first", "last"}, label : 1..5]

InitRoundTrip ==
    /\ QUESTIONS_DB = <<>> /\ RESPONSES_DB = <<>> /\ uuidCtr = 0
    /\ last = [op |-> "none"]
    /\ procs = <<>> /\ started = 0 /\ actor = 0 /\ wroteQ = <<>> /\ wroteR = <<>>
    /\ arg \in [c : {<<"9">>}, l : {<<"1", "0">>}, r : {<<"0">>},
                f : BoundedSeq(TextAlphabet, MaxTextLen),
                x : BoundedSeq(TextAlphabet, MaxTextLen),
                dup : Dups]
    /\ ret = Pending

CallEvaluateSynthetic ==
    /\ ret = Pending
    /\ ret' = evaluate_answer(1, Synthetic(arg))
    /\ UNCHANGED <<arg, apiVars, concVars>>

NextRoundTrip == CallEvaluateSynthetic

SpecRoundTrip == InitRoundTrip /\ [][NextRoundTrip]_vars

\* the value the response's later line for label k carries
LaterValue(a, k) ==
    IF a.dup.pos = "last" /\ a.dup.label = k THEN DupValue(k)
    ELSE <<a.c, a.l, a.r, a.f, a.x>>[k]

RoundTrips(a, res) ==
    /\ res.st = "returned"
    /\ res.val.confidence = float(LaterValue(a, 1)).val
    /\ res.val.clarity = float(LaterValue(a, 2)).val
    /\ res.val.relevance = float(LaterValue(a, 3)).val
    /\ res.val.feedback = LaterValue(a, 4)
    /\ res.val.expected_answer = LaterValue(a, 5)

Trimmed(t) == strip(t) = t

\* C4 as claimed: every synthetic five-field response, whatever single-line
\* texts f and x are (colons and marker words included; read here as texts
\* without surrounding whitespace), is parsed back to c, l, r, f, x, the later
\* of two lines of one label winning.
C4_RoundTripAnyText ==
    (ret.st # "pending" /\ Trimmed(arg.f) /\ Trimmed(arg.x))
        => RoundTrips(arg, ret)

\* C4 as amended: the round trip holds when f and x have no surrounding
\* whitespace, f holds none of the words Confidence, Clarity, Relevance and x
\* none of Confidence, Clarity, Relevance, Feedback (colons, and the word
\* Expected, are free); the later of two lines of one label wins.
C4_RoundTripPlainText ==
    (/\ ret.st # "pending"
     /\ Trimmed(arg.f) /\ Trimmed(arg.x)
     /\ \A k \in 1..3 : ~Contains(arg.f, Markers[k])
     /\ \A k \in 1..4 : ~Contains(arg.x, Markers[k]))
        => RoundTrips(arg, ret)

\* a feedback text with a colon and the word Expected, an expected answer
\* with a colon, and a second Feedback line: parsed back, the later line winning
C4_Witness ==
    /\ ret.st = "returned"
    /\ arg.f = <<"Expected", COLON>>
    /\ arg.x = <<"x", COLON>>
    /\ arg.dup = [pos |-> "last", label |-> 4]
    /\ ret.val.feedback = <<"y">>
    /\ ret.val.expected_answer = <<"x", COLON>>

-----------------------------------------------------------------------------
(* generate_summary_report, app.py:136-148 *)

\* scores in tenths
StrengthAbove == 85
WeaknessBelow == 65

Dimensions == <<"Confidence", "Clarity", "Relevance">>

\* str.lower() on the one-word texts the code lowers
lower(w) ==
    CASE w = "Confidence" -> "confidence"
      [] w = "Clarity" -> "clarity"
      [] w = "Relevance" -> "relevance"
      [] w \in {"PDF", "Pdf"} -> "pdf"
      [] w \in {"DOCX", "Docx"} -> "docx"
      [] w = "TXT" -> "txt"
      [] OTHER -> w

\* getattr(e, name)
getattr(e, name) == e[name]

RECURSIVE SumScores(_)
SumScores(evaluations) ==
    IF evaluations = <<>> THEN 0
    ELSE LET e == Head(evaluations)
         IN  (e.confidence + e.clarity + e.relevance) + SumScores(Tail(evaluations))

\* sum([(c + l + r)/3 for e in evaluations]) / len(evaluations), kept as the
\* fraction num/den of tenths; ZeroDivisionError on the empty list
Average(evaluations) ==
    IF Len(evaluations) = 0 THEN Raised("ZeroDivisionError")
    ELSE Returned([num |-> SumScores(evaluations), den |-> 3 * Len(evaluations)])

\* a plausible slip: the threshold itself counted as a strength
IsStrengthInclusive(evaluations, cat) ==
    \E i \in 1..Len(evaluations) :
        getattr(evaluations[i], lower(cat)) >= StrengthAbove

\* any(getattr(e, cat.lower()) > 8.5 for e in evaluations)
IsStrength(evaluations, cat) ==
    \E i \in 1..Len(evaluations) :
        getattr(evaluations[i], lower(cat)) > StrengthAbove

\* any(getattr(e, cat.lower()) < 6.5 for e in evaluations)
IsWeakness(evaluations, cat) ==
    \E i \in 1..Len(evaluations) :
        getattr(evaluations[i], lower(cat)) < WeaknessBelow

Encouragement == <<"You're doing great! Keep practicing.">>

\* "Work on " + ", ".join(weaknesses) if weaknesses else "You're doing great! ..."
ImprovementPlan(weaknesses) ==
    IF weaknesses # <<>>
    THEN <<"Work on ">>
         \o join(<<", ">>, [i \in 1..Len(weaknesses) |-> <<weaknesses[i]>>])
    ELSE Encouragement

generate_summary_report(user_id, evaluations) ==
    LET avg_score == Average(evaluations)
        strengths == SelectSeq(Dimensions, LAMBDA cat : IsStrength(evaluations, cat))
        weaknesses == SelectSeq(Dimensions, LAMBDA cat : IsWeakness(evaluations, cat))
        plan == ImprovementPlan(weaknesses)
    IN  IF avg_score.st = "raised" THEN avg_score
        ELSE Returned([user_id |-> user_id,
                       evaluations |-> evaluations,
                       average_score |-> avg_score.val,
                       strengths |-> strengths,
                       weaknesses |-> weaknesses,
                       improvement_plan |-> plan])

-----------------------------------------------------------------------------
(* The report aggregator on every list of up to MaxEvals evaluations *)

ScoreSamples == {64, 65, 85, 86}

EvalSamples ==
    [question_id : {1}, confidence : ScoreSamples, clarity : ScoreSamples,
     relevance : ScoreSamples, feedback : {<<>>}, expected_answer : {<<>>}]

InitReport ==
    /\ QUESTIONS_DB = <<>> /\ RESPONSES_DB = <<>> /\ uuidCtr = 0
    /\ last = [op |-> "none"]
    /\ procs = <<>> /\ started = 0 /\ actor = 0 /\ wroteQ = <<>> /\ wroteR = <<>>
    /\ arg \in BoundedSeq(EvalSamples, MaxEvals)
    /\ ret = Pending

CallGenerateSummaryReport ==
    /\ ret = Pending
    /\ ret' = generate_summary_report(1, arg)
    /\ UNCHANGED <<arg, apiVars, concVars>>

NextReport == CallGenerateSummaryReport

SpecReport == InitReport /\ [][NextReport]_vars

DimIndex(d) == CHOOSE k \in 1..3 : Dimensions[k] = d

\* names is a selection of the dimensions, in their order, holding exactly
\* those that satisfy P
SelectsInOrder(names, P(_)) ==
    /\ \A i \in 1..Len(names) : names[i] \in {Dimensions[k] : k \in 1..3}
    /\ \A i, j \in 1..Len(names) : i < j => DimIndex(names[i]) < DimIndex(names[j])
    /\ \A k \in 1..3 : P(k) <=> \E i \in 1..Len(names) : names[i] = Dimensions[k]

ScoreOf(e, k) ==
    CASE k = 1 -> e.confidence [] k = 2 -> e.clarity [] k = 3 -> e.relevance

RECURSIVE CommaJoined(_)
CommaJoined(names) ==
    IF Len(names) = 1 THEN <<names[1]>>
    ELSE <<names[1], ", ">> \o CommaJoined(Tail(names))

\* C6: for every non-empty list of evaluations the report's strengths are the
\* dimensions, in order, on which some evaluation scores strictly above 8.5,
\* its weaknesses those on which some evaluation scores strictly below 6.5
\* (independently: a dimension may be in both), its plan is "Work on " and the
\* comma-joined weaknesses exactly when there are weaknesses and the
\* encouragement otherwise, and its evaluations are the input in input order.
C6_ReportLists ==
    (ret.st # "pending" /\ arg # <<>>) =>
        /\ ret.st = "returned"
        /\ SelectsInOrder(ret.val.strengths,
              LAMBDA k : \E i \in 1..Len(arg) : ScoreOf(arg[i], k) > 85)
        /\ SelectsInOrder(ret.val.weaknesses,
              LAMBDA k : \E i \in 1..Len(arg) : ScoreOf(arg[i], k) < 65)
        /\ IF ret.val.weaknesses # <<>>
           THEN ret.val.improvement_plan
                    = <<"Work on ">> \o CommaJoined(ret.val.weaknesses)
           ELSE ret.val.improvement_plan = Encouragement
        /\ ret.val.evaluations = arg

\* a report with Confidence both a strength and a weakness
C6_Witness ==
    /\ ret.st = "returned"
    /\ Len(arg) = 2
    /\ ret.val.strengths = <<"Confidence">>
    /\ ret.val.weaknesses = <<"Confidence", "Relevance">>
    /\ ret.val.improvement_plan = <<"Work on ", "Confidence", ", ", "Relevance">>

-----------------------------------------------------------------------------
(* parse_resume, app.py:88-96 *)

\* str.lower() on a text
lowerText(t) == [i \in 1..Len(t) |-> lower(t[i])]

\* An upload is its file name, the format its bytes really have, and the
\* texts of its pages (a PDF) or paragraphs (a DOCX), in order.

\* fitz.open(stream=..., filetype="pdf") and the join of the pages' text;
\* bytes that are no PDF make fitz.open raise
ExtractPdf(file) ==
    IF file.format = "pdf" THEN Returned(join(<<NL>>, file.parts))
    ELSE Raised("FileDataError")

\* docx.Document(file.file) and the join of the paragraphs' text;
\* bytes that are no DOCX make docx.Document raise
ExtractDocx(file) ==
    IF file.format = "docx" THEN Returned(join(<<NL>>, file.parts))
    ELSE Raised("PackageNotFoundError")

parse_resume(file) ==
    LET ext == lowerText(LastOf(split(file.filename, DOT)))
    IN  IF ext = <<"pdf">> THEN ExtractPdf(file)
        ELSE IF ext = <<"docx">> THEN ExtractDocx(file)
        ELSE Returned(<<>>)

-----------------------------------------------------------------------------
(* The document extractor on every file name of up to MaxNameLen tokens *)

NameAlphabet == {"resume", DOT, "pdf", "PDF", "docx", "txt"}

PartsSamples == {<<>>, <<<<"p1">>>>, <<<<"p1">>, <<"p2", SP, "p2">>>>}

InitResume ==
    /\ QUESTIONS_DB = <<>> /\ RESPONSES_DB = <<>> /\ uuidCtr = 0
    /\ last = [op |-> "none"]
    /\ procs = <<>> /\ started = 0 /\ actor = 0 /\ wroteQ = <<>> /\ wroteR = <<>>
    /\ arg \in [filename : BoundedSeq(NameAlphabet, MaxNameLen),
                format : {"pdf", "docx", "other"},
                parts : PartsSamples]
    /\ ret = Pending

CallParseResume ==
    /\ ret = Pending
    /\ ret' = parse_resume(arg)
    /\ UNCHANGED <<arg, apiVars, concVars>>

NextResume == CallParseResume

SpecResume == InitResume /\ [][NextResume]_vars

\* the name ends in "." and the word e in some letter case
EndsInExt(name, e) ==
    /\ Len(name) >= 2
    /\ name[Len(name) - 1] = DOT
    /\ lower(name[Len(name)]) = e

\* C9: a name ending in ".pdf" in any letter case is extracted as PDF, one
\* ending in ".docx" as DOCX, and every other name, those without any "."
\* included, yields the empty string without an error.
C9_DispatchOnExtension ==
    ret.st # "pending" =>
        IF EndsInExt(arg.filename, "pdf") THEN ret = ExtractPdf(arg)
        ELSE IF EndsInExt(arg.filename, "docx") THEN ret = ExtractDocx(arg)
        ELSE ret = Returned(<<>>)

-----------------------------------------------------------------------------
(* The session store and the three handlers, app.py:84-85, 151-177 *)

\* a dict: a function whose domain is the set of its keys
EmptyDict == [k \in {} |-> <<>>]

\* d[k] = v
Put(d, k, v) == [x \in DOMAIN d \cup {k} |-> IF x = k THEN v ELSE d[x]]

\* d.get(k, default)
Get(d, k, default) == IF k \in DOMAIN d THEN d[k] ELSE default

\* 9.0, in tenths
FullRating == 90

\* a plausible slip: a mean of exactly 9.0 not counted as the full rating
AboveFullRating(avg_score) == avg_score.num > FullRating * avg_score.den

\* avg_score >= 9.0, for the fraction avg_score (its den is positive)
AtLeastFullRating(avg_score) == avg_score.num >= FullRating * avg_score.den

\* [evaluate_answer(...) for ans in answers]: the evaluations, or the first
\* ValueError.  answers[i].reply is the text the model returns for answer i.
RECURSIVE EvaluateAll(_)
EvaluateAll(answers) ==
    IF answers = <<>> THEN Returned(<<>>)
    ELSE LET e == evaluate_answer(Head(answers).question_id, Head(answers).reply)
         IN  IF e.st = "raised" THEN e
             ELSE LET rest == EvaluateAll(Tail(answers))
                  IN  IF rest.st = "raised" THEN rest
                      ELSE Returned(<<e.val>> \o rest.val)

NoResume == [filename |-> <<>>, format |-> "none", parts |-> <<>>]

\* In the handlers a local of the code is bound by \E v \in {e}: the value
\* of e, computed once.

\* POST /start-interview.  raw is the text the model returns for the prompt.
start_interview(resume, raw) ==
    \E user_id \in {uuidCtr + 1} :
    \E resume_text \in {IF resume # NoResume THEN parse_resume(resume)
                        ELSE Returned(<<>>)} :
        IF resume_text.st = "raised"
        THEN /\ uuidCtr + 1 <= MaxUuid
             /\ uuidCtr' = uuidCtr + 1
             /\ last' = [op |-> "start_interview", user_id |-> user_id,
                         raw |-> <<>>, resp |-> resume_text]
             /\ UNCHANGED <<QUESTIONS_DB, RESPONSES_DB>>
        ELSE \E questions \in {generate_questions(raw, uuidCtr + 1)} :
             /\ uuidCtr + 1 + Len(questions) <= MaxUuid
             /\ uuidCtr' = uuidCtr + 1 + Len(questions)
             /\ QUESTIONS_DB' = Put(QUESTIONS_DB, user_id, questions)
             /\ last' = [op |-> "start_interview", user_id |-> user_id,
                         raw |-> raw,
                         resp |-> Returned([user_id |-> user_id,
                                            questions |-> questions])]
             /\ UNCHANGED RESPONSES_DB

\* POST /submit-answers
submit_answers(user_id, answers) ==
    \E evaluations \in {EvaluateAll(answers)} :
        IF evaluations.st = "raised"
        THEN /\ last' = [op |-> "submit_answers", user_id |-> user_id,
                         raw |-> <<>>, resp |-> evaluations]
             /\ UNCHANGED <<QUESTIONS_DB, RESPONSES_DB, uuidCtr>>
        ELSE \E report \in {generate_summary_report(user_id, evaluations.val)} :
             /\ RESPONSES_DB' = Put(RESPONSES_DB, user_id, evaluations.val)
             /\ last' = [op |-> "submit_answers", user_id |-> user_id,
                         raw |-> <<>>, resp |-> report]
             /\ UNCHANGED <<QUESTIONS_DB, uuidCtr>>

ErrorPayload == [error |-> "No previous session found."]
MessagePayload == [message |-> "You've achieved full rating! No more questions needed."]

\* GET /next-round.  raw is the text the model returns if it is asked.
next_round(user_id, raw) ==
    \E last_scores \in {Get(RESPONSES_DB, user_id, <<>>)} :
        IF last_scores = <<>>
        THEN /\ last' = [op |-> "next_round", user_id |-> user_id,
                         raw |-> <<>>, resp |-> Returned(ErrorPayload)]
             /\ UNCHANGED <<QUESTIONS_DB, RESPONSES_DB, uuidCtr>>
        ELSE IF AtLeastFullRating(Average(last_scores).val)
        THEN /\ last' = [op |-> "next_round", user_id |-> user_id,
                         raw |-> <<>>, resp |-> Returned(MessagePayload)]
             /\ UNCHANGED <<QUESTIONS_DB, RESPONSES_DB, uuidCtr>>
        ELSE \E questions \in {generate_questions(raw, uuidCtr)} :
             /\ uuidCtr + Len(questions) <= MaxUuid
             /\ uuidCtr' = uuidCtr + Len(questions)
             /\ QUESTIONS_DB' = Put(QUESTIONS_DB, user_id, questions)
             /\ last' = [op |-> "next_round", user_id |-> user_id,
                         raw |-> raw,
                         resp |-> Returned([questions |-> questions])]
             /\ UNCHANGED RESPONSES_DB

-----------------------------------------------------------------------------
(* The service under any sequence of requests *)

\* texts the model may return to the question prompt
GenReplies == {<<SP, NL>>, <<"q1", NL, NL, "q2">>}

\* the reply "Confidence: c / Clarity: l / Relevance: r"
ScoreReply(c, l, r) ==
    join(<<NL>>, <<FieldLine("Confidence", c), FieldLine("Clarity", l),
                   FieldLine("Relevance", r)>>)

\* texts the model may return to the evaluation prompt
EvalReplies ==
    {ScoreReply(<<"9">>, <<"9">>, <<"9">>),
     ScoreReply(<<"5">>, <<"9">>, <<"1", "0">>),
     ScoreReply(<<"1", "1">>, <<"9">>, <<"9">>),
     FieldLine("Confidence", <<"x">>)}

AnswerSamples == [question_id : {1}, reply : EvalReplies]

ResumeSamples ==
    {NoResume,
     [filename |-> <<"resume", DOT, "PDF">>, format |-> "pdf", parts |-> <<<<"p1">>>>],
     [filename |-> <<"resume", DOT, "pdf">>, format |-> "other", parts |-> <<>>]}

\* the user ids a client may send: those in use, and 0, which is never issued
RequestIds == DOMAIN QUESTIONS_DB \cup DOMAIN RESPONSES_DB \cup {0}

\* the user ids start_interview has issued
Issued == DOMAIN QUESTIONS_DB \ {0}

Init ==
    /\ QUESTIONS_DB = EmptyDict
    /\ RESPONSES_DB = EmptyDict
    /\ uuidCtr = 0
    /\ last = [op |-> "none"]
    /\ procs = <<>> /\ started = 0 /\ actor = 0 /\ wroteQ = <<>> /\ wroteR = <<>>
    /\ arg = <<>> /\ ret = Pending

StartInterview ==
    /\ Cardinality(Issued) < MaxUsers
    /\ \E resume \in ResumeSamples, raw \in GenReplies : start_interview(resume, raw)
    /\ UNCHANGED <<concVars, pureVars>>

SubmitAnswers ==
    /\ \E user_id \in RequestIds, answers \in BoundedSeq(AnswerSamples, MaxAnswers) :
          submit_answers(user_id, answers)
    /\ UNCHANGED <<concVars, pureVars>>

NextRound ==
    /\ \E user_id \in RequestIds, raw \in GenReplies : next_round(user_id, raw)
    /\ UNCHANGED <<concVars, pureVars>>

Next == StartInterview \/ SubmitAnswers \/ NextRound

Spec == Init /\ [][Next]_vars

-----------------------------------------------------------------------------
(* Claims about the handlers *)

\* the mean of (confidence + clarity + relevance)/3 over evals is >= 9.0:
\* the sum of all scores (tenths) against 9.0 for each of the 3 * Len scores
MeanAtLeast9(evals) == SumScores(evals) >= 90 * 3 * Len(evals)

StoresUnchanged ==
    QUESTIONS_DB' = QUESTIONS_DB /\ RESPONSES_DB' = RESPONSES_DB

\* C1: after any sequence of requests, next-round(user_id) has exactly three
\* outcomes, decided by the evaluations stored for user_id: none stored, the
\* {error} payload and both maps unchanged; their mean >= 9.0, only a
\* {message} (no questions field) and both maps unchanged; otherwise
\* {questions}, QUESTIONS_DB[user_id] replaced by exactly the returned
\* questions and RESPONSES_DB unchanged.
C1_NextRoundOutcomes ==
    [][last'.op = "next_round" =>
        LET u == last'.user_id
            stored == IF u \in DOMAIN RESPONSES_DB THEN RESPONSES_DB[u] ELSE <<>>
            resp == last'.resp
        IN  /\ resp.st = "returned"
            /\ IF stored = <<>>
               THEN /\ resp.val = [error |-> "No previous session found."]
                    /\ StoresUnchanged
               ELSE IF MeanAtLeast9(stored)
               THEN /\ DOMAIN resp.val = {"message"}
                    /\ StoresUnchanged
               ELSE /\ DOMAIN resp.val = {"questions"}
                    /\ u \in DOMAIN QUESTIONS_DB'
                    /\ QUESTIONS_DB'[u] = resp.val.questions
                    /\ \A k \in DOMAIN QUESTIONS_DB' \ {u} :
                          k \in DOMAIN QUESTIONS_DB /\ QUESTIONS_DB'[k] = QUESTIONS_DB[k]
                    /\ DOMAIN QUESTIONS_DB' = DOMAIN QUESTIONS_DB \cup {u}
                    /\ RESPONSES_DB' = RESPONSES_DB
    ]_vars

\* next-round has just replaced the questions of an issued user whose two
\* stored evaluations average below 9.0
C1_Witness ==
    /\ last.op = "next_round"
    /\ last.user_id # 0
    /\ "questions" \in DOMAIN last.resp.val
    /\ Len(last.resp.val.questions) = 2
    /\ QUESTIONS_DB[last.user_id] = last.resp.val.questions
    /\ Len(RESPONSES_DB[last.user_id]) = 2

\* next-round was the last request, for a user whose stored evaluations
\* average below 9.0 (next-round leaves RESPONSES_DB as it was)
NextRoundBelowFull ==
    /\ last.op = "next_round"
    /\ last.user_id \in DOMAIN RESPONSES_DB
    /\ RESPONSES_DB[last.user_id] # <<>>
    /\ ~MeanAtLeast9(RESPONSES_DB[last.user_id])

\* C2 as claimed: next-round for a user whose stored evaluations average
\* below 9.0 answers with a non-empty questions list, whatever text the
\* model returns.
C2_QuestionsNonEmpty ==
    NextRoundBelowFull =>
        /\ "questions" \in DOMAIN last.resp.val
        /\ last.resp.val.questions # <<>>

HasNonBlankLine(raw) ==
    \E i \in 1..Len(raw) : ~IsSpace(raw[i])

\* C2 as amended: next-round for a user whose stored evaluations average
\* below 9.0 answers with a questions list, which is non-empty exactly when
\* the text the model returned has a non-blank line.
C2_QuestionsNonEmptyIffNonBlank ==
    NextRoundBelowFull =>
        /\ "questions" \in DOMAIN last.resp.val
        /\ (last.resp.val.questions # <<>>) <=> HasNonBlankLine(last.raw)

\* next-round answered with an empty questions list to a blank model output
C2_Witness ==
    /\ NextRoundBelowFull
    /\ last.resp.val = [questions |-> <<>>]
    /\ last.raw = <<SP, NL>>

\* C7: in every reachable state every stored Question has a category of the
\* four and every stored EvaluationResult has confidence, clarity and
\* relevance within [0, 10], whatever text the model returns.
C7_StoredValuesInDomain ==
    /\ \A u \in DOMAIN QUESTIONS_DB : \A i \in 1..Len(QUESTIONS_DB[u]) :
          QUESTIONS_DB[u][i].category
              \in {"Technical", "Behavioral", "HR", "Situational"}
    /\ \A u \in DOMAIN RESPONSES_DB : \A i \in 1..Len(RESPONSES_DB[u]) :
          \A f \in {"confidence", "clarity", "relevance"} :
              RESPONSES_DB[u][i][f] >= 0 /\ RESPONSES_DB[u][i][f] <= 100

\* C10: a submit-answers request that fails (an unparseable numeric field, or
\* an empty answers list) leaves QUESTIONS_DB and RESPONSES_DB as they were.
C10_FailedSubmitChangesNothing ==
    [][(last'.op = "submit_answers" /\ last'.resp.st = "raised")
          => StoresUnchanged]_vars

-----------------------------------------------------------------------------
(* The handlers run concurrently, app.py:151-177.  A handler is a plain     *)
(* `def`, which the framework runs on a worker thread: its accesses to the  *)
(* two dicts interleave with those of the other handlers.  Each step below  *)
(* is one access to a dict, or the model call between two accesses.         *)

Procs == 1..NProcs

IdleProc ==
    [pc |-> "idle", op |-> "none", user_id |-> 0, raw |-> <<>>, answers |-> <<>>,
     evaluations |-> <<>>, questions |-> <<>>, base |-> 0, resp |-> Pending,
     alone |-> TRUE, snapR |-> <<>>]

\* texts the model may return to the question prompt of a concurrent request
ConcGenReplies == {<<"q1">>, <<"q2">>}

\* the answers lists concurrent submit-answers requests carry
ConcAnswerLists ==
    {<<>>,
     <<[question_id |-> 1, reply |-> ScoreReply(<<"9">>, <<"9">>, <<"9">>)]>>,
     <<[question_id |-> 1, reply |-> ScoreReply(<<"5">>, <<"9">>, <<"1", "0">>)]>>,
     <<[question_id |-> 1, reply |-> FieldLine("Confidence", <<"x">>)]>>}

\* the two sessions the requests are for, begun by two start-interview
\* requests to which the model replied a blank text
InitConc ==
    /\ QUESTIONS_DB = Put(Put(EmptyDict, 1, <<>>), 2, <<>>)
    /\ RESPONSES_DB = EmptyDict
    /\ uuidCtr = 2
    /\ last = [op |-> "none"]
    /\ procs = [p \in Procs |-> IdleProc]
    /\ started = 0
    /\ actor = 0
    /\ wroteQ = QUESTIONS_DB
    /\ wroteR = EmptyDict
    /\ arg = <<>> /\ ret = Pending

Free(p) == procs[p].pc \in {"idle", "done"}
Active(q) == ~Free(q)

\* a request for user_id arrives at handler p.  Two requests for one user_id
\* of which one arrives before the other has returned are not alone; nor is a
\* returned one once a later request for its user_id has arrived.
Arrive(p, rec) ==
    /\ Free(p)
    /\ started < MaxRequests
    /\ started' = started + 1
    /\ actor' = p
    /\ procs' = [q \in Procs |->
          IF q = p
          THEN [rec EXCEPT !.alone =
                    \A o \in Procs \ {p} :
                        Active(o) => procs[o].user_id # rec.user_id]
          ELSE IF procs[q].pc # "idle" /\ procs[q].user_id = rec.user_id
          THEN [procs[q] EXCEPT !.alone = FALSE]
          ELSE procs[q]]

\* app.py:153  user_id = str(uuid.uuid4())
BeginStart(p) ==
    /\ \E raw \in ConcGenReplies :
          Arrive(p, [IdleProc EXCEPT !.pc = "call", !.op = "start_interview",
                                     !.user_id = uuidCtr + 1, !.raw = raw])
    /\ uuidCtr' = uuidCtr + 1
    /\ UNCHANGED <<QUESTIONS_DB, RESPONSES_DB, last, wroteQ, wroteR, pureVars>>

BeginSubmit(p) ==
    /\ \E user_id \in {1, 2}, answers \in ConcAnswerLists :
          Arrive(p, [IdleProc EXCEPT !.pc = "call", !.op = "submit_answers",
                                     !.user_id = user_id, !.answers = answers])
    /\ UNCHANGED <<QUESTIONS_DB, RESPONSES_DB, uuidCtr, last, wroteQ, wroteR, pureVars>>

BeginNext(p) ==
    /\ \E user_id \in {1, 2}, raw \in ConcGenReplies :
          Arrive(p, [IdleProc EXCEPT !.pc = "read", !.op = "next_round",
                                     !.user_id = user_id, !.raw = raw,
                                     !.snapR = Get(RESPONSES_DB, user_id, <<>>)])
    /\ UNCHANGED <<QUESTIONS_DB, RESPONSES_DB, uuidCtr, last, wroteQ, wroteR, pureVars>>

\* a plausible slip: the evaluations read from whichever session submitted,
\* not from the caller's
ScoresOfAnyUser(user_id) ==
    IF DOMAIN RESPONSES_DB = {} THEN <<>>
    ELSE RESPONSES_DB[CHOOSE k \in DOMAIN RESPONSES_DB :
                          \A j \in DOMAIN RESPONSES_DB : k <= j]

\* app.py:168  RESPONSES_DB.get(user_id, [])
ScoresOf(user_id) == Get(RESPONSES_DB, user_id, <<>>)

\* app.py:156, 176  QUESTIONS_DB[user_id] = questions
StoreQuestions(user_id, questions) ==
    /\ QUESTIONS_DB' = Put(QUESTIONS_DB, user_id, questions)
    /\ wroteQ' = Put(wroteQ, user_id, questions)

\* app.py:162  RESPONSES_DB[user_id] = evaluations
StoreEvaluations(user_id, evaluations) ==
    /\ RESPONSES_DB' = Put(RESPONSES_DB, user_id, evaluations)
    /\ wroteR' = Put(wroteR, user_id, evaluations)

Step(p, rec) == procs' = [procs EXCEPT ![p] = rec] /\ actor' = p

\* app.py:155, 175  questions = generate_questions(...)
CallGenerate(p) ==
    /\ procs[p].pc = "call"
    /\ procs[p].op \in {"start_interview", "next_round"}
    /\ \E questions \in {generate_questions(procs[p].raw, uuidCtr)} :
          /\ uuidCtr' = uuidCtr + Len(questions)
          /\ Step(p, [procs[p] EXCEPT !.pc = "write", !.questions = questions,
                                       !.base = uuidCtr])
    /\ UNCHANGED <<QUESTIONS_DB, RESPONSES_DB, last, started, wroteQ, wroteR, pureVars>>

\* app.py:156-157
StartWrite(p) ==
    /\ procs[p].pc = "write" /\ procs[p].op = "start_interview"
    /\ StoreQuestions(procs[p].user_id, procs[p].questions)
    /\ Step(p, [procs[p] EXCEPT !.pc = "done",
                   !.resp = Returned([user_id |-> procs[p].user_id,
                                      questions |-> procs[p].questions])])
    /\ UNCHANGED <<RESPONSES_DB, uuidCtr, last, started, wroteR, pureVars>>

\* app.py:161
SubmitCall(p) ==
    /\ procs[p].pc = "call" /\ procs[p].op = "submit_answers"
    /\ \E evaluations \in {EvaluateAll(procs[p].answers)} :
          IF evaluations.st = "raised"
          THEN Step(p, [procs[p] EXCEPT !.pc = "done", !.resp = evaluations])
          ELSE Step(p, [procs[p] EXCEPT !.pc = "write",
                                        !.evaluations = evaluations.val])
    /\ UNCHANGED <<QUESTIONS_DB, RESPONSES_DB, uuidCtr, last, started, wroteQ, wroteR,
                   pureVars>>

\* app.py:162-164
SubmitWrite(p) ==
    /\ procs[p].pc = "write" /\ procs[p].op = "submit_answers"
    /\ StoreEvaluations(procs[p].user_id, procs[p].evaluations)
    /\ Step(p, [procs[p] EXCEPT !.pc = "done",
                   !.resp = generate_summary_report(procs[p].user_id,
                                                    procs[p].evaluations)])
    /\ UNCHANGED <<QUESTIONS_DB, uuidCtr, last, started, wroteQ, pureVars>>

\* app.py:168-173
NextRead(p) ==
    /\ procs[p].pc = "read" /\ procs[p].op = "next_round"
    /\ \E last_scores \in {ScoresOf(procs[p].user_id)} :
          IF last_scores = <<>>
          THEN Step(p, [procs[p] EXCEPT !.pc = "done",
                                        !.resp = Returned(ErrorPayload)])
          ELSE IF AtLeastFullRating(Average(last_scores).val)
          THEN Step(p, [procs[p] EXCEPT !.pc = "done",
                                        !.resp = Returned(MessagePayload)])
          ELSE Step(p, [procs[p] EXCEPT !.pc = "call"])
    /\ UNCHANGED <<QUESTIONS_DB, RESPONSES_DB, uuidCtr, last, started, wroteQ, wroteR,
                   pureVars>>

\* app.py:176-177
NextWrite(p) ==
    /\ procs[p].pc = "write" /\ procs[p].op = "next_round"
    /\ StoreQuestions(procs[p].user_id, procs[p].questions)
    /\ Step(p, [procs[p] EXCEPT !.pc = "done",
                   !.resp = Returned([questions |-> procs[p].questions])])
    /\ UNCHANGED <<RESPONSES_DB, uuidCtr, last, started, wroteR, pureVars>>

NextConc ==
    \E p \in Procs :
        \/ BeginStart(p)
        \/ BeginSubmit(p)
        \/ BeginNext(p)
        \/ CallGenerate(p)
        \/ StartWrite(p)
        \/ SubmitCall(p)
        \/ SubmitWrite(p)
        \/ NextRead(p)
        \/ NextWrite(p)

SpecConc == InitConc /\ [][NextConc]_vars

-----------------------------------------------------------------------------
(* Claims about concurrent requests *)

\* what request pr answers when it runs alone: next-round decides on the
\* evaluations stored for its user_id when it arrived
SoloResponse(pr) ==
    CASE pr.op = "start_interview" ->
            Returned([user_id |-> pr.user_id,
                      questions |-> generate_questions(pr.raw, pr.base)])
      [] pr.op = "submit_answers" ->
            LET ev == EvaluateAll(pr.answers)
            IN  IF ev.st = "raised" THEN ev
                ELSE generate_summary_report(pr.user_id, ev.val)
      [] pr.op = "next_round" ->
            IF pr.snapR = <<>> THEN Returned([error |-> "No previous session found."])
            ELSE IF MeanAtLeast9(pr.snapR)
            THEN Returned(MessagePayload)
            ELSE Returned([questions |-> generate_questions(pr.raw, pr.base)])

\* a step of the handler for user_id A leaves every other entry of both maps
\* as it was
OtherEntriesKept ==
    \A k \in (DOMAIN QUESTIONS_DB \cup DOMAIN QUESTIONS_DB'
              \cup DOMAIN RESPONSES_DB \cup DOMAIN RESPONSES_DB') :
        k # procs'[actor'].user_id =>
            /\ (k \in DOMAIN QUESTIONS_DB) <=> (k \in DOMAIN QUESTIONS_DB')
            /\ k \in DOMAIN QUESTIONS_DB => QUESTIONS_DB'[k] = QUESTIONS_DB[k]
            /\ (k \in DOMAIN RESPONSES_DB) <=> (k \in DOMAIN RESPONSES_DB')
            /\ k \in DOMAIN RESPONSES_DB => RESPONSES_DB'[k] = RESPONSES_DB[k]

\* a returned request that no request for the same user_id overlapped answers
\* as it does alone, and what it stored is in the map
AloneAsSolo ==
    \A p \in Procs :
        (procs[p].pc = "done" /\ procs[p].alone) =>
            /\ procs[p].resp = SoloResponse(procs[p])
            /\ (procs[p].resp.st = "returned"
                    /\ "questions" \in DOMAIN procs[p].resp.val)
                  => QUESTIONS_DB[procs[p].user_id] = procs[p].resp.val.questions
            /\ (procs[p].resp.st = "returned"
                    /\ "evaluations" \in DOMAIN procs[p].resp.val)
                  => RESPONSES_DB[procs[p].user_id] = procs[p].resp.val.evaluations

\* each entry holds the whole list its last writer computed
WholeValueOfLastWriter ==
    /\ DOMAIN QUESTIONS_DB = DOMAIN wroteQ
    /\ \A k \in DOMAIN QUESTIONS_DB : QUESTIONS_DB[k] = wroteQ[k]
    /\ DOMAIN RESPONSES_DB = DOMAIN wroteR
    /\ \A k \in DOMAIN RESPONSES_DB : RESPONSES_DB[k] = wroteR[k]

\* C8: under every interleaving, a request for user_id A neither changes nor
\* reads the entries of another user_id B, and answers as if it had run
\* alone; of requests racing on one user_id each entry ends as the whole
\* value one of them wrote, the last writer's, never a mixture.
C8_RequestsDoNotInterfere ==
    /\ [](AloneAsSolo /\ WholeValueOfLastWriter)
    /\ [][OtherEntriesKept]_vars

\* next-round for user 1 returned questions, alone on user 1, while a
\* submit-answers for user 2 was between its model call and its write
C8_Witness ==
    \E p, q \in Procs :
        /\ procs[p].op = "next_round" /\ procs[p].pc = "done" /\ procs[p].alone
        /\ procs[p].user_id = 1
        /\ "questions" \in DOMAIN procs[p].resp.val
        /\ procs[q].op = "submit_answers" /\ procs[q].pc = "write"
        /\ procs[q].user_id = 2

====
